---- MODULE Spec2Model ----
(***************************************************************************)
(* Model of the huffman package of hpxro7/compressor-head: a Distribution  *)
(* over sample bytes, the min-heap tree builder, the code table, the bit   *)
(* packing Writer and the tree walking Reader.                             *)
(*                                                                         *)
(* Pointers to nodes are indices into the arena `nodes`; 0 is nil. The     *)
(* program never compares or orders pointers, so which index a node gets  *)
(* is a naming: the leaf of the i-th smallest key of d.cnts is node i and *)
(* the nodes buildTree makes follow in the order they are made. The order *)
(* in which range visits d.cnts is the order of the heap slice.           *)
(* Heap positions are 0-based as in Go: position i of h is h[i + 1].       *)
(***************************************************************************)
EXTENDS Integers, Sequences, FiniteSets, TLC

VARIABLES
    pc,       \* position of the calling program
    cnts,     \* Distribution.cnts: symbol -> count, over the symbols seen
    total,    \* Distribution.total
    nodes,    \* every node allocated so far (l, r, val, cnt)
    h,        \* the nodeHeap: node pointers in heap order
    root,     \* Writer.root / Reader.root
    mapping,  \* Writer.mapping: symbol -> code
    input,    \* the argument p of Writer.Write
    sink,     \* the byte slices the underlying io.Writer was called with
    wn,       \* Write's returned count
    werr,     \* Write's returned error
    source,   \* the bytes the underlying io.Reader holds
    out,      \* the argument p of Reader.Read, as Read leaves it
    rn,       \* Read's returned count
    rerr      \* Read's returned error

vars == <<pc, cnts, total, nodes, h, root, mapping, input, sink, wn, werr,
          source, out, rn, rerr>>

---------------------------------------------------------------------------
(* Bounds of the model. *)

MaxSample == 4       \* longest sample given to NewDistribution
MaxInput == 3        \* longest slice given to Write
MaxRead == 3         \* longest buffer given to Read
MaxWide == 7         \* longest four-symbol sample
MaxDeep == 10        \* largest alphabet of the skewed samples

(* Program constants. *)

ByteMod == 256       \* values of type byte
ByteBits == 8        \* bits of a byte: `left := 8`
NilPtr == 0
NoError == "nil"
ErrUnknownSymbol == "probability was not in distribution"
ErrEOF == "EOF"
ErrNilDeref == "panic: nil pointer dereference"

(* The symbols samples and inputs draw from: 'a', 'b', 'c'. *)
Alphabet == {97, 98, 99}

(* The symbols of the four-symbol samples: 'a' .. 'd'. *)
WideAlphabet == {97, 98, 99, 100}

Pow2(n) == 2 ^ n

(* Arithmetic on the type byte wraps. *)
Byte(x) == x % ByteMod

Min(a, b) == IF a < b THEN a ELSE b

Range(s) == {s[i] : i \in DOMAIN s}

SeqsUpTo(S, n) == UNION {[1 .. k -> S] : k \in 0 .. n}

---------------------------------------------------------------------------
(* Distribution *)

NewDistribution(bs) ==
    [cnts  |-> [v \in Range(bs) |-> Cardinality({i \in DOMAIN bs : bs[i] = v})],
     total |-> Len(bs)]

---------------------------------------------------------------------------
(* container/heap over nodeHeap *)

LessMax(ns, hp, i, j) == ns[hp[i + 1]].cnt > ns[hp[j + 1]].cnt

Less(ns, hp, i, j) == ns[hp[i + 1]].cnt < ns[hp[j + 1]].cnt

Swap(hp, i, j) == [hp EXCEPT ![i + 1] = hp[j + 1], ![j + 1] = hp[i + 1]]

RECURSIVE down(_, _, _, _)
down(ns, hp, i, n) ==
    LET j1 == 2 * i + 1
        j2 == j1 + 1
        j  == IF j2 < n /\ Less(ns, hp, j2, j1) THEN j2 ELSE j1
    IN  IF j1 >= n THEN hp
        ELSE IF ~Less(ns, hp, j, i) THEN hp
        ELSE down(ns, Swap(hp, i, j), j, n)

RECURSIVE up(_, _, _)
up(ns, hp, j) ==
    LET i == IF j = 0 THEN 0 ELSE (j - 1) \div 2
    IN  IF i = j \/ ~Less(ns, hp, j, i) THEN hp
        ELSE up(ns, Swap(hp, i, j), i)

RECURSIVE heapInitFrom(_, _, _)
heapInitFrom(ns, hp, i) ==
    IF i < 0 THEN hp
    ELSE heapInitFrom(ns, down(ns, hp, i, Len(hp)), i - 1)

heapInit(ns, hp) == heapInitFrom(ns, hp, (Len(hp) \div 2) - 1)

heapPop(ns, hp) ==
    LET n == Len(hp) - 1
        d == down(ns, Swap(hp, 0, n), 0, n)
    IN  [item |-> d[n + 1], h |-> SubSeq(d, 1, n)]

heapPush(ns, hp, x) == up(ns, Append(hp, x), Len(hp))

---------------------------------------------------------------------------
(* Tree builder *)

Leaf(val, cnt) == [l |-> NilPtr, r |-> NilPtr, val |-> val, cnt |-> cnt]

isLeaf(ns, curr) == ns[curr].l = NilPtr /\ ns[curr].r = NilPtr

(* The pointer to the leaf toHeap makes for each key of d.cnts. *)
leafPtr(c) == [v \in DOMAIN c |-> Cardinality({x \in DOMAIN c : x <= v})]

(* The leaves toHeap makes: &node{val: v, cnt: cnt} for each key v. *)
leafNodes(c) ==
    [i \in 1 .. Cardinality(DOMAIN c) |->
        LET v == CHOOSE x \in DOMAIN c : leafPtr(c)[x] = i IN Leaf(v, c[v])]

(* toHeap: `order` is the order in which range visits d.cnts; the slice *)
(* holds the leaves in that order when heap.Init is called.             *)
toHeap(c, order) ==
    LET ns == leafNodes(c)
        at == leafPtr(c)
    IN  [nodes |-> ns,
         h     |-> heapInit(ns, [i \in 1 .. Len(order) |-> at[order[i]]])]

(* One pass of the merge loop of buildTree: two pops, one push. *)
mergeStepRightWeight(ns, hp) ==
    LET p1   == heapPop(ns, hp)
        p2   == heapPop(ns, p1.h)
        l    == p1.item
        r    == p2.item
        next == [l |-> l, r |-> r, val |-> 0, cnt |-> ns[r].cnt]
        ns2  == Append(ns, next)
    IN  [nodes |-> ns2, h |-> heapPush(ns2, p2.h, Len(ns2))]

mergeStep(ns, hp) ==
    LET p1   == heapPop(ns, hp)
        p2   == heapPop(ns, p1.h)
        l    == p1.item
        r    == p2.item
        next == [l |-> l, r |-> r, val |-> 0, cnt |-> ns[r].cnt + ns[l].cnt]
        ns2  == Append(ns, next)
    IN  [nodes |-> ns2, h |-> heapPush(ns2, p2.h, Len(ns2))]

(* The tail of buildTree once the loop has ended. *)
lastPop(ns, hp) ==
    IF Len(hp) >= 1 THEN heapPop(ns, hp).item ELSE NilPtr

RECURSIVE buildTree(_, _)
buildTree(ns, hp) ==
    IF Len(hp) >= 2
    THEN LET m == mergeStep(ns, hp) IN buildTree(m.nodes, m.h)
    ELSE [nodes |-> ns, root |-> lastPop(ns, hp)]

---------------------------------------------------------------------------
(* Code table *)

RECURSIVE expandPaths(_, _, _, _, _)
expandPaths(ns, path, depth, curr, mp) ==
    IF curr = NilPtr THEN mp
    ELSE IF isLeaf(ns, curr)
    THEN (ns[curr].val :> [path |-> path, len |-> depth]) @@ mp
    ELSE LET leftPath  == path
             rightPath == IF depth = 0
                          THEN Byte(path + 1)
                          ELSE Byte(path + Byte(2 * Pow2(depth - 1)))
             afterLeft == expandPaths(ns, leftPath, depth + 1, ns[curr].l, mp)
         IN  expandPaths(ns, rightPath, depth + 1, ns[curr].r, afterLeft)

getMapping(ns, rt) == expandPaths(ns, 0, 0, rt, <<>>)

---------------------------------------------------------------------------
(* Writer *)

(* The underlying io.Writer: a file, which takes every byte it is given. *)
sinkWrite(b) == [n |-> Len(b), err |-> NoError]

(* One pass of the bit loop of Write, for the bit p % 2. *)
packBit(st, bit) ==
    LET curr2 == IF st.left = ByteBits
                 THEN Byte(st.curr + bit)
                 ELSE Byte(st.curr + Byte(bit * Byte(2 * Pow2(ByteBits - st.left - 1))))
    IN  IF st.left = 1
        THEN [encoded |-> Append(st.encoded, curr2), curr |-> 0,
              left |-> ByteBits, wrote |-> TRUE]
        ELSE [st EXCEPT !.curr = curr2, !.left = st.left - 1]

RECURSIVE packCode(_, _, _, _)
packCode(st, p, read, len) ==
    IF read < len
    THEN packCode(packBit(st, p % 2), p \div 2, read + 1, len)
    ELSE st

(* `if i == len(p)-1 && !wrote`: the flush after the last symbol. *)
flushLast(st, isLast) ==
    IF isLast /\ ~st.wrote
    THEN [st EXCEPT !.encoded = Append(st.encoded, st.curr)]
    ELSE st

(* The return taken when a symbol is not in the mapping. *)
unknownResultFlushing(encoded) ==
    [n |-> 0, err |-> ErrUnknownSymbol, calls |-> <<encoded>>]

unknownResult(encoded) ==
    [n |-> 0, err |-> ErrUnknownSymbol, calls |-> <<>>]

(* `return w.Writer.Write(encoded)` *)
writeResultSymbols(p, encoded) ==
    [n |-> Len(p), err |-> sinkWrite(encoded).err, calls |-> <<encoded>>]

writeResult(p, encoded) ==
    [n |-> sinkWrite(encoded).n, err |-> sinkWrite(encoded).err,
     calls |-> <<encoded>>]

RECURSIVE writeLoop(_, _, _, _)
writeLoop(mp, p, i, st) ==
    IF i > Len(p) THEN writeResult(p, st.encoded)
    ELSE IF p[i] \notin DOMAIN mp THEN unknownResult(st.encoded)
    ELSE LET c   == mp[p[i]]
             st1 == packCode([st EXCEPT !.wrote = FALSE], c.path, 0, c.len)
         IN  writeLoop(mp, p, i + 1, flushLast(st1, i = Len(p)))

Write(mp, p) ==
    writeLoop(mp, p, 1,
              [encoded |-> <<>>, curr |-> 0, left |-> ByteBits, wrote |-> FALSE])

---------------------------------------------------------------------------
(* Reader *)

Zeros(n) == [i \in 1 .. n |-> 0]

(* The underlying io.Reader: a file holding src, read from its start into *)
(* a buffer of n bytes.                                                   *)
sourceRead(src, n) ==
    IF n = 0 THEN [n |-> 0, err |-> NoError, buf |-> <<>>]
    ELSE IF Len(src) = 0 THEN [n |-> 0, err |-> ErrEOF, buf |-> Zeros(n)]
    ELSE LET k == Min(n, Len(src))
         IN  [n |-> k, err |-> NoError,
              buf |-> [i \in 1 .. n |-> IF i <= k THEN src[i] ELSE 0]]

(* The bits the stream function hands out, in order, before it reports EOF. *)
toBitStream(buf) ==
    [i \in 1 .. ByteBits * Len(buf) |->
        (buf[((i - 1) \div ByteBits) + 1] \div Pow2((i - 1) % ByteBits)) % 2]

RECURSIVE decode(_, _, _, _)
decode(ns, curr, bits, pos) ==
    IF curr = NilPtr THEN [val |-> 0, err |-> ErrNilDeref, pos |-> pos]
    ELSE IF isLeaf(ns, curr) THEN [val |-> ns[curr].val, err |-> NoError, pos |-> pos]
    ELSE IF pos >= Len(bits) THEN [val |-> 0, err |-> ErrEOF, pos |-> pos]
    ELSE IF bits[pos + 1] = 0
    THEN decode(ns, ns[curr].l, bits, pos + 1)
    ELSE decode(ns, ns[curr].r, bits, pos + 1)

RECURSIVE readLoop(_, _, _, _, _, _, _)
readLoop(ns, rt, bits, pos, n, p, err) ==
    IF err = NoError /\ n < Len(p)
    THEN LET d == decode(ns, rt, bits, pos)
         IN  readLoop(ns, rt, bits, d.pos, n + 1, [p EXCEPT ![n + 1] = d.val], d.err)
    ELSE [n |-> n, err |-> err, p |-> p]

Read(ns, rt, src, len) ==
    LET rd == sourceRead(src, len)
    IN  IF rd.err # NoError
        THEN [n |-> rd.n, err |-> rd.err, p |-> Zeros(len)]
        ELSE readLoop(ns, rt, toBitStream(rd.buf), 0, 0, Zeros(len), NoError)

---------------------------------------------------------------------------
(* Inputs *)

RECURSIVE Ascending(_)
Ascending(S) ==
    IF S = {} THEN <<>>
    ELSE LET m == CHOOSE x \in S : \A y \in S : x <= y
         IN  <<m>> \o Ascending(S \ {m})

(* The sample that holds c[s] copies of each symbol s of order, in order. *)
RECURSIVE BlockSample(_, _)
BlockSample(c, order) ==
    IF order = <<>> THEN <<>>
    ELSE [i \in 1 .. c[Head(order)] |-> Head(order)] \o BlockSample(c, Tail(order))

(* Every sample of up to MaxSample bytes over Alphabet. *)
Samples == SeqsUpTo(Alphabet, MaxSample)

RECURSIVE SumOver(_, _)
SumOver(c, S) ==
    IF S = {} THEN 0
    ELSE LET s == CHOOSE x \in S : TRUE IN c[s] + SumOver(c, S \ {s})

(* The samples of up to MaxWide bytes in which all four symbols occur, *)
(* one sample for each way of counting them.                           *)
WideSamples ==
    {BlockSample(c, Ascending(WideAlphabet)) :
        c \in {d \in [WideAlphabet -> 1 .. MaxWide] : SumOver(d, WideAlphabet) <= MaxWide}}

Inputs == SeqsUpTo(Alphabet, MaxInput)

RECURSIVE Fib(_)
Fib(k) == IF k <= 2 THEN 1 ELSE Fib(k - 1) + Fib(k - 2)

(* The sample in which the k-th symbol occurs Fib(k) times: its tree is a *)
(* chain, whatever way ties are broken.                                   *)
RECURSIVE SkewedSample(_)
SkewedSample(k) ==
    IF k = 0 THEN <<>>
    ELSE SkewedSample(k - 1) \o [i \in 1 .. Fib(k) |-> 96 + k]

(* The orders in which `range d.cnts` may visit the symbols in S. Go leaves *)
(* the order unspecified: every permutation of S.                          *)
RECURSIVE Orders(_)
Orders(S) ==
    IF S = {} THEN {<<>>}
    ELSE UNION {{<<x>> \o o : o \in Orders(S \ {x})} : x \in S}

(* The bytes in the file the sink wrote: Write calls the sink at most once. *)
Flatten(calls) == IF Len(calls) = 0 THEN <<>> ELSE calls[1]

---------------------------------------------------------------------------
(* The calling program: build a distribution, a writer, write, read back. *)

InitFrom(bs) ==
    /\ pc = "dist"
    /\ cnts = NewDistribution(bs).cnts
    /\ total = NewDistribution(bs).total
    /\ nodes = <<>>
    /\ h = <<>>
    /\ root = NilPtr
    /\ mapping = <<>>
    /\ input = <<>>
    /\ sink = <<>>
    /\ wn = 0
    /\ werr = NoError
    /\ source = <<>>
    /\ out = <<>>
    /\ rn = 0
    /\ rerr = NoError

Init == \E bs \in Samples \cup WideSamples : InitFrom(bs)

InitDeep == \E k \in 1 .. MaxDeep : InitFrom(SkewedSample(k))

(* The loop of toHeap and the heap.Init after it: each pass of the range *)
(* visits any key of `rest`, the keys not visited yet, and appends its   *)
(* leaf to the slice hp. The passes together take every order of         *)
(* Orders(DOMAIN cnts), and the slice ends as toHeap(cnts, order).h.     *)
RECURSIVE rangeCnts(_, _, _, _)
rangeCnts(ns, at, hp, rest) ==
    IF rest = {}
    THEN /\ nodes' = ns
         /\ h' = heapInit(ns, hp)
    ELSE \E v \in rest : rangeCnts(ns, at, Append(hp, at[v]), rest \ {v})

(* NewWriter, first part: d.toHeap() *)
ToHeap ==
    /\ pc = "dist"
    /\ rangeCnts(leafNodes(cnts), leafPtr(cnts), <<>>, DOMAIN cnts)
    /\ pc' = "build"
    /\ UNCHANGED <<cnts, total, root, mapping, input, sink, wn, werr,
                   source, out, rn, rerr>>

(* NewWriter: one pass of buildTree's loop *)
Merge ==
    /\ pc = "build"
    /\ Len(h) >= 2
    /\ nodes' = mergeStep(nodes, h).nodes
    /\ h' = mergeStep(nodes, h).h
    /\ UNCHANGED <<pc, cnts, total, root, mapping, input, sink, wn, werr,
                   source, out, rn, rerr>>

(* NewWriter, last part: the final Pop, and getMapping *)
Finish ==
    /\ pc = "build"
    /\ Len(h) < 2
    /\ root' = lastPop(nodes, h)
    /\ h' = <<>>
    /\ mapping' = getMapping(nodes, lastPop(nodes, h))
    /\ pc' = "writer"
    /\ UNCHANGED <<cnts, total, nodes, input, sink, wn, werr, source, out, rn, rerr>>

DoWrite ==
    /\ pc = "writer"
    /\ \E p \in Inputs :
         /\ input' = p
         /\ wn' = Write(mapping, p).n
         /\ werr' = Write(mapping, p).err
         /\ sink' = Write(mapping, p).calls
    /\ pc' = "written"
    /\ UNCHANGED <<cnts, total, nodes, h, root, mapping, source, out, rn, rerr>>

(* The source is the file the sink wrote, or that file cut short. *)
DoRead ==
    /\ pc = "written"
    /\ \E len \in 0 .. MaxRead, k \in 0 .. Len(Flatten(sink)) :
         LET src == SubSeq(Flatten(sink), 1, k)
         IN  /\ source' = src
             /\ out' = Read(nodes, root, src, len).p
             /\ rn' = Read(nodes, root, src, len).n
             /\ rerr' = Read(nodes, root, src, len).err
    /\ pc' = "read"
    /\ UNCHANGED <<cnts, total, nodes, h, root, mapping, input, sink, wn, werr>>

Next == ToHeap \/ Merge \/ Finish \/ DoWrite \/ DoRead

Spec == Init /\ [][Next]_vars

SpecDeep == InitDeep /\ [][Next]_vars

---------------------------------------------------------------------------
(* Notions the properties are stated in *)

Built == pc \in {"writer", "written", "read"}

(* A code's bit sequence: the first len bits of path, least significant first. *)
CodeBits(c) == [j \in 1 .. c.len |-> (c.path \div Pow2(j - 1)) % 2]

IsPrefix(s, t) == Len(s) <= Len(t) /\ \A j \in 1 .. Len(s) : s[j] = t[j]

(* The code table a Writer gets when the counts are visited in `order`. *)
CodeTable(c, order) ==
    LET t == toHeap(c, order)
        b == buildTree(t.nodes, t.h)
    IN  getMapping(b.nodes, b.root)

RECURSIVE WeightedLength(_, _, _)
WeightedLength(c, lens, S) ==
    IF S = {} THEN 0
    ELSE LET s == CHOOSE x \in S : TRUE
         IN  c[s] * lens[s] + WeightedLength(c, lens, S \ {s})

RECURSIVE KraftSum(_, _, _)
KraftSum(lens, S, top) ==
    IF S = {} THEN 0
    ELSE LET s == CHOOSE x \in S : TRUE
         IN  Pow2(top - lens[s]) + KraftSum(lens, S \ {s}, top)

(* The code lengths of the prefix-free codes over S, every length at most *)
(* the number of symbols: those that satisfy Kraft's inequality.          *)
PrefixFreeLengths(S) ==
    LET top == Cardinality(S)
    IN  {f \in [S -> 1 .. top] : KraftSum(f, S, top) <= Pow2(top)}

Leaves(ns, rt) == {i \in DOMAIN ns : isLeaf(ns, i)}

RECURSIVE CodeStream(_, _)
CodeStream(mp, p) ==
    IF p = <<>> THEN <<>>
    ELSE CodeBits(mp[Head(p)]) \o CodeStream(mp, Tail(p))

BitOf(bytes, k) == (bytes[(k \div ByteBits) + 1] \div Pow2(k % ByteBits)) % 2

(* The bits of the bytes the source handed to a Read of len bytes. *)
SuppliedBits(src, len) == toBitStream(SubSeq(src, 1, Min(len, Len(src))))

(* Where the supplied bits run out as `left` symbols are walked from pos: *)
(* "complete" when every symbol reaches a leaf within them, "inside" when *)
(* they end after a symbol has begun, "boundary" when they end between    *)
(* symbols.                                                               *)
RECURSIVE WalkEnd(_, _, _, _, _)
WalkEnd(ns, rt, bits, pos, left) ==
    IF left = 0 THEN "complete"
    ELSE LET d == decode(ns, rt, bits, pos)
         IN  IF d.err = NoError THEN WalkEnd(ns, rt, bits, d.pos, left - 1)
             ELSE IF d.pos > pos THEN "inside"
             ELSE "boundary"

---------------------------------------------------------------------------
(* Properties *)

(* C1: round trip. After one Write of T on a Writer built from a non-empty *)
(* sample, a Read into Len(T) bytes from a source holding exactly the      *)
(* bytes the sink was given leaves T in the buffer.                        *)
C1_RoundTrip ==
    (/\ pc = "read"
     /\ total > 0
     /\ werr = NoError
     /\ source = Flatten(sink)
     /\ Len(out) = Len(input))
    => out = input

(* C2: a Write whose input holds a symbol that did not occur in the sample *)
(* returns an error and count 0, and the sink is not called.               *)
C2_UnknownAllOrNothing ==
    (/\ pc \in {"written", "read"}
     /\ \E i \in DOMAIN input : input[i] \notin DOMAIN cnts)
    => (werr # NoError /\ wn = 0 /\ sink = <<>>)

C2_Witness ==
    /\ pc = "written"
    /\ Len(input) >= 3
    /\ input[1] \in DOMAIN cnts
    /\ input[2] \in DOMAIN cnts
    /\ input[3] \notin DOMAIN cnts
    /\ Cardinality(DOMAIN cnts) = 2
    /\ werr = ErrUnknownSymbol
    /\ sink = <<>>

(* C3: prefix property. In the code table of a tree over two or more       *)
(* symbols no symbol's code is a bit-prefix of another symbol's code.      *)
C3_PrefixFree ==
    (pc = "writer" /\ Cardinality(DOMAIN cnts) >= 2)
    => \A a \in DOMAIN mapping : \A b \in DOMAIN mapping \ {a} :
         ~IsPrefix(CodeBits(mapping[a]), CodeBits(mapping[b]))

(* C4: determinism. The code table does not depend on the order in which   *)
(* the symbol counts were visited when the heap was seeded.                *)
C4_Deterministic ==
    pc = "writer"
    => \A order \in Orders(DOMAIN cnts) : CodeTable(cnts, order) = mapping

(* C5: optimality. Over two or more symbols every symbol has a code, and   *)
(* the sum of count x code length is at most that of every prefix-free     *)
(* assignment of code lengths to the same symbols.                         *)
C5_Optimal ==
    (pc = "writer" /\ Cardinality(DOMAIN cnts) >= 2)
    => /\ DOMAIN mapping = DOMAIN cnts
       /\ \A f \in PrefixFreeLengths(DOMAIN cnts) :
            WeightedLength(cnts, [s \in DOMAIN cnts |-> mapping[s].len], DOMAIN cnts)
              <= WeightedLength(cnts, f, DOMAIN cnts)

C5_Witness ==
    /\ pc = "writer"
    /\ Cardinality(DOMAIN cnts) = 4
    /\ \E s \in DOMAIN cnts : mapping[s].len = 3
    /\ WeightedLength(cnts, [s \in DOMAIN cnts |-> mapping[s].len], DOMAIN cnts)
         < WeightedLength(cnts, [s \in DOMAIN cnts |-> 2], DOMAIN cnts)

(* C6: single-symbol alphabet. The tree built from a sample that repeats   *)
(* one byte has exactly one leaf, and the symbol's code has length >= 1.   *)
C6_SingleSymbolCode ==
    (pc = "writer" /\ Cardinality(DOMAIN cnts) = 1)
    => /\ Cardinality(Leaves(nodes, root)) = 1
       /\ \A s \in DOMAIN cnts : s \in DOMAIN mapping /\ mapping[s].len >= 1

(* C7, as claimed: a successful Write returns the number of input symbols. *)
C7_CountIsSymbols ==
    (pc = "written" /\ werr = NoError) => wn = Len(input)

(* C7, amended: a successful Write calls the sink once and returns the     *)
(* number of packed bytes the sink took.                                   *)
C7_CountIsPackedBytes ==
    (pc = "written" /\ werr = NoError)
    => (Len(sink) = 1 /\ wn = Len(sink[1]))

C7_Witness ==
    /\ pc = "written"
    /\ werr = NoError
    /\ Len(input) = 3
    /\ Cardinality(DOMAIN cnts) >= 2
    /\ wn = 1

(* C8: truncated stream. Over a tree of two or more symbols, a Read whose  *)
(* supplied bits run out inside a symbol returns an error, and a Read      *)
(* whose symbols all end within the supplied bits returns none.            *)
C8_TruncationReported ==
    (pc = "read" /\ root # NilPtr /\ ~isLeaf(nodes, root))
    => LET end == WalkEnd(nodes, root, SuppliedBits(source, Len(out)), 0, Len(out))
       IN  /\ end = "inside" => rerr # NoError
           /\ end = "complete" => rerr = NoError

(* C9: empty input is an error. No Writer is built on a distribution whose *)
(* total is 0, and no Writer holds a nil tree.                             *)
C9_EmptyRejected ==
    Built => (total > 0 /\ root # NilPtr)

(* C10: bit packing. Over two or more symbols, a successful Write of codes *)
(* totalling B bits hands the sink ceil(B/8) bytes, whose bits, least      *)
(* significant first, are the codes' bits in order, then zeros.            *)
C10_BitPacking ==
    (pc = "written" /\ werr = NoError /\ Cardinality(DOMAIN cnts) >= 2)
    => LET bits == CodeStream(mapping, input)
           B    == Len(bits)
           enc  == Flatten(sink)
       IN  /\ Len(sink) = 1
           /\ Len(enc) = (B + ByteBits - 1) \div ByteBits
           /\ \A k \in 0 .. (ByteBits * Len(enc)) - 1 :
                BitOf(enc, k) = IF k < B THEN bits[k + 1] ELSE 0

---------------------------------------------------------------------------
(* Tree shape *)

(* The nodes of the tree under node i, i included. *)
RECURSIVE Under(_, _)
Under(ns, i) ==
    IF i = NilPtr THEN {}
    ELSE {i} \cup Under(ns, ns[i].l) \cup Under(ns, ns[i].r)

(* The number of leaves met on a walk of the tree under i: a leaf that *)
(* two paths reach is counted twice.                                   *)
RECURSIVE LeafVisits(_, _)
LeafVisits(ns, i) ==
    IF i = NilPtr THEN 0
    ELSE IF isLeaf(ns, i) THEN 1
    ELSE LeafVisits(ns, ns[i].l) + LeafVisits(ns, ns[i].r)

RECURSIVE SumSeq(_)
SumSeq(s) == IF s = <<>> THEN 0 ELSE Head(s) + SumSeq(Tail(s))

(* The number of child pointers, over all nodes, that point to node i. *)
ParentLinks(ns, i) ==
    Cardinality({p \in DOMAIN ns : ns[p].l = i})
      + Cardinality({p \in DOMAIN ns : ns[p].r = i})

(* Every node under i with a child has two children and their weights' sum. *)
WellFormedUnder(ns, i) ==
    \A n \in Under(ns, i) :
        IF isLeaf(ns, n)
        THEN ns[n].val \in DOMAIN cnts /\ ns[n].cnt = cnts[ns[n].val]
        ELSE /\ ns[n].l # NilPtr
             /\ ns[n].r # NilPtr
             /\ ns[n].cnt = ns[ns[n].l].cnt + ns[ns[n].r].cnt

(* C11: tree shape. While buildTree merges, the heap holds the roots of    *)
(* disjoint trees whose leaves are the distribution's symbols, each once,  *)
(* and whose root weights sum to the total; the tree returned for k >= 2   *)
(* symbols has k leaves and k - 1 internal nodes, each internal node with  *)
(* two children and their weights' sum, no node under two parents, and a   *)
(* root weight equal to the total.                                         *)
C11_TreeShape ==
    /\ pc = "build" =>
         /\ \A i \in DOMAIN h : \A j \in DOMAIN h :
              i # j => Under(nodes, h[i]) \cap Under(nodes, h[j]) = {}
         /\ \A i \in DOMAIN h : WellFormedUnder(nodes, h[i])
         /\ {nodes[n].val : n \in {m \in UNION {Under(nodes, h[i]) : i \in DOMAIN h} :
                                      isLeaf(nodes, m)}} = DOMAIN cnts
         /\ SumSeq([i \in DOMAIN h |-> LeafVisits(nodes, h[i])])
              = Cardinality(DOMAIN cnts)
         /\ SumSeq([i \in DOMAIN h |-> nodes[h[i]].cnt]) = total
    /\ (pc = "writer" /\ Cardinality(DOMAIN cnts) >= 2) =>
         LET k     == Cardinality(DOMAIN cnts)
             under == Under(nodes, root)
         IN  /\ root # NilPtr
             /\ Cardinality({n \in under : isLeaf(nodes, n)}) = k
             /\ Cardinality({n \in under : ~isLeaf(nodes, n)}) = k - 1
             /\ LeafVisits(nodes, root) = k
             /\ {nodes[n].val : n \in {m \in under : isLeaf(nodes, m)}} = DOMAIN cnts
             /\ WellFormedUnder(nodes, root)
             /\ \A n \in under : ParentLinks(nodes, n) <= 1
             /\ ParentLinks(nodes, root) = 0
             /\ nodes[root].cnt = total

(* Mid-loop over four symbols: two merges done, an internal node and a *)
(* leaf still to be merged.                                            *)
C11_Witness ==
    /\ pc = "build"
    /\ Cardinality(DOMAIN cnts) = 4
    /\ Len(h) = 2
    /\ \E i \in DOMAIN h : ~isLeaf(nodes, h[i])
    /\ \E i \in DOMAIN h : isLeaf(nodes, h[i])

====
